---- MODULE Spec2Model ----
(***************************************************************************)
(* Model of the serial-packet library (src/src/lib.rs): make_packet, the   *)
(* encoder of a frame                                                      *)
(*   [0xA5, 0x5A, size_h, size_l, 0xA0, main data ..., checksum, 0x04]     *)
(* and parser, which scans a receive buffer for the first header at or     *)
(* after an offset and extracts the main data.  Both are pure functions;   *)
(* the state machine draws their inputs (a payload, the noise around a     *)
(* frame, a damaged or foreign buffer, a scan offset) and applies them.    *)
(* Vec indices are 0-based in the source; At(packet, k) reads packet[k].   *)
(***************************************************************************)
EXTENDS Integers, Sequences, FiniteSets, TLC

VARIABLES
    input,    \* the payload the caller built (value of `data` before the call)
    data,     \* the Vec<u8> handed to make_packet by &mut (drained on success)
    enc,      \* the Result of make_packet
    pre,      \* bytes in the receive buffer before the frame
    post,     \* bytes in the receive buffer after the frame
    packet,   \* the receive buffer handed to parser
    offset,   \* the offset handed to parser
    kind,     \* how the receive buffer came about
    phase,    \* "input", "encoded", "buffered", "parsed"
    res       \* the Result of parser

vars == <<input, data, enc, pre, post, packet, offset, kind, phase, res>>

----------------------------------------------------------------------------
(* Bounds of the inputs *)

MaxDataLen == 129      \* longest payload offered to make_packet
MaxShortLen == 2       \* payloads up to this length are enumerated exhaustively
MaxNoise == 2          \* longest noise prefix before a frame
MaxPostNoise == 1      \* longest noise suffix after a frame
MaxRawLen == 3         \* longest foreign buffer that carries no frame
MaxOffset == 3         \* largest scan offset
MaxSmallBuf == 9       \* buffers up to this length may be damaged or re-scanned

----------------------------------------------------------------------------
(* Literals of the wire format *)

HEADER_0 == 165        \* 0xA5
HEADER_1 == 90         \* 0x5A
SIZE_FLAG == 128       \* 0x80
SIZE_MASK == 127       \* 0x7F
CONST_PART == 160      \* 0xA0
FOOTER == 4            \* 0x04
MAX_DATA == 127        \* 0x7F
MIN_READ == 7

ErrDataEmpty == "The main data size is 0."
ErrDataTooLarge == "The data size exceeds the maximum value that can be sent in this packet."
ErrOffset == "Packet size shorter than offset position."
ErrShort == "Read data is 7Byte or less."
ErrNoHeader == "Header does not exist."
ErrSizeConst == "Data size part and constant part do not fit in buffer."
ErrMsb == "Syntax error (The 3rd byte MSB is not 1)."
ErrNone == "Main data part is None."
ErrConst == "Syntax error (The 5th of the packet is not 0xA0)."
ErrFit == "The data after the main data section does not fit in the buffer."
ErrChecksum == "Checksum mismatch."
ErrFooter == "Footer does not exist."
PanicIndex == "index out of bounds"
PanicSub == "attempt to subtract with overflow"

----------------------------------------------------------------------------
(* Integer operators of the source: &, |, ^, >>, <<, `as u8` *)

RECURSIVE BitAnd(_, _)
BitAnd(a, b) ==
    IF a = 0 \/ b = 0 THEN 0
    ELSE (a % 2) * (b % 2) + 2 * BitAnd(a \div 2, b \div 2)

RECURSIVE BitOr(_, _)
BitOr(a, b) ==
    IF a = 0 THEN b
    ELSE IF b = 0 THEN a
    ELSE (IF a % 2 = 1 \/ b % 2 = 1 THEN 1 ELSE 0) + 2 * BitOr(a \div 2, b \div 2)

RECURSIVE BitXor(_, _)
BitXor(a, b) ==
    IF a = 0 THEN b
    ELSE IF b = 0 THEN a
    ELSE (((a % 2) + (b % 2)) % 2) + 2 * BitXor(a \div 2, b \div 2)

Shr(a, n) == a \div (2 ^ n)

Shl(a, n) == a * (2 ^ n)

AsU8(x) == x % 256

\* packet[k] of the source (0-based); InBounds is Vec's bounds check
At(v, k) == v[k + 1]

InBounds(v, k) == k >= 0 /\ k < Len(v)

----------------------------------------------------------------------------
(* calc_checksum *)

\* One iteration of `for i in 1..data.len()`; nothing once the range is used up.
ChecksumStep(v, i, num) ==
    IF i < Len(v) THEN BitXor(num, At(v, i)) ELSE num

\* The loop from iteration i on, four iterations to an unfolding; num is a u8.
RECURSIVE ChecksumLoop(_, _, _)
ChecksumLoop(v, i, num) ==
    IF num \notin 0..255 \/ i >= Len(v) THEN num
    ELSE ChecksumLoop(v, i + 4,
             ChecksumStep(v, i + 3,
                 ChecksumStep(v, i + 2,
                     ChecksumStep(v, i + 1,
                         ChecksumStep(v, i, num)))))

\* -1 stands for the panic of data[0] on an empty Vec
calc_checksum(v) ==
    IF ~InBounds(v, 0) THEN -1
    ELSE ChecksumLoop(v, 1, At(v, 0))

----------------------------------------------------------------------------
(* make_packet *)

EncOk(p) == [ok |-> TRUE, val |-> p, err |-> ""]

EncErr(e) == [ok |-> FALSE, val |-> <<>>, err |-> e]

IsEmptyData(data_len) == data_len = 0

ExceedsMaxMut(data_len) == data_len > 128

ExceedsMax(data_len) == data_len > MAX_DATA

SizeHighMut(data_len) == AsU8(Shr(data_len, 8))

SizeHigh(data_len) == AsU8(BitOr(SIZE_FLAG, Shr(data_len, 8)))

SizeLow(data_len) == AsU8(BitAnd(255, data_len))

make_packet(v) ==
    LET data_len == Len(v) IN
    IF IsEmptyData(data_len) THEN EncErr(ErrDataEmpty)
    ELSE IF ExceedsMax(data_len) THEN EncErr(ErrDataTooLarge)
    ELSE LET checksum == calc_checksum(v)
         IN  EncOk(<<HEADER_0, HEADER_1, SizeHigh(data_len), SizeLow(data_len),
                     CONST_PART>> \o v \o <<checksum, FOOTER>>)

----------------------------------------------------------------------------
(* parser *)

ParseOk(d, h, t) ==
    [st |-> "Ok", main_data |-> d, head_pos |-> h, tail_pos |-> t, err |-> ""]

ParseErr(e) ==
    [st |-> "Err", main_data |-> <<>>, head_pos |-> 0, tail_pos |-> 0, err |-> e]

Panic(e) ==
    [st |-> "Panic", main_data |-> <<>>, head_pos |-> 0, tail_pos |-> 0, err |-> e]

OffsetPastEnd(packet_len, off) == packet_len <= off

TooShortMut(packet_len) == packet_len < MIN_READ

TooShort(packet_len) == packet_len <= MIN_READ

\* The header loop `for _ in offset..(packet_len - 1)`: n iterations are left.
RECURSIVE HeaderLoopMut(_, _, _)
HeaderLoopMut(v, i, n) ==
    IF n <= 0 THEN [header_flag |-> FALSE, head_pos |-> 0, i |-> i, panic |-> FALSE]
    ELSE IF ~InBounds(v, i)
         THEN [header_flag |-> FALSE, head_pos |-> 0, i |-> i, panic |-> TRUE]
    ELSE IF At(v, i) = HEADER_0
         THEN [header_flag |-> TRUE, head_pos |-> i, i |-> i + 2, panic |-> FALSE]
    ELSE HeaderLoopMut(v, i + 1, n - 1)

RECURSIVE HeaderLoop(_, _, _)
HeaderLoop(v, i, n) ==
    IF n <= 0 THEN [header_flag |-> FALSE, head_pos |-> 0, i |-> i, panic |-> FALSE]
    ELSE IF ~InBounds(v, i)
         THEN [header_flag |-> FALSE, head_pos |-> 0, i |-> i, panic |-> TRUE]
    ELSE IF At(v, i) = HEADER_0
         THEN IF ~InBounds(v, i + 1)
              THEN [header_flag |-> FALSE, head_pos |-> 0, i |-> i, panic |-> TRUE]
              ELSE IF At(v, i + 1) = HEADER_1
                   THEN [header_flag |-> TRUE, head_pos |-> i, i |-> i + 2,
                         panic |-> FALSE]
                   ELSE HeaderLoop(v, i + 1, n - 1)
    ELSE HeaderLoop(v, i + 1, n - 1)

SizeConstMissing(packet_len, i) == (packet_len - i) < 3

HasSizeFlagMut(b) == BitAnd(b, 64) = 64

HasSizeFlag(b) == BitAnd(b, SIZE_FLAG) = SIZE_FLAG

DecodeSizeMut(hi, lo) == BitAnd(Shl(BitAnd(hi, SIZE_MASK), 8), lo)

DecodeSize(hi, lo) == BitOr(Shl(BitAnd(hi, SIZE_MASK), 8), lo)

IsNoneMut(data_size) == FALSE

IsNone(data_size) == data_size = 0

BodyMissingMut(packet_len, i, data_size) == (packet_len - i) < (data_size + 2)

BodyMissing(packet_len, i, data_size) == (packet_len - i) < (data_size + 3)

ChecksumBadMut(sum, b) == FALSE

ChecksumBad(sum, b) == BitXor(sum, b) # 0

\* From the checksum on: i is the index of the checksum byte.
CheckTail(v, head_pos, main_data, i) ==
    LET sum == calc_checksum(main_data) IN
    IF sum < 0 \/ ~InBounds(v, i) THEN Panic(PanicIndex)
    ELSE IF ChecksumBad(sum, At(v, i)) THEN ParseErr(ErrChecksum)
    ELSE IF ~InBounds(v, i + 1) THEN Panic(PanicIndex)
    ELSE IF At(v, i + 1) # FOOTER THEN ParseErr(ErrFooter)
    ELSE ParseOk(main_data, head_pos, i + 1)

\* From the constant part on: i is the index of the constant byte.
ReadBody(v, head_pos, data_size, i) ==
    LET packet_len == Len(v) IN
    IF ~InBounds(v, i) THEN Panic(PanicIndex)
    ELSE IF At(v, i) # CONST_PART THEN ParseErr(ErrConst)
    ELSE IF packet_len < i THEN Panic(PanicSub)
    ELSE IF BodyMissing(packet_len, i, data_size) THEN ParseErr(ErrFit)
    ELSE IF ~InBounds(v, i + data_size) THEN Panic(PanicIndex)
    ELSE CheckTail(v, head_pos,
                   [j \in 1..data_size |-> At(v, i + j)], i + 1 + data_size)

\* After the header: i is the index of the first data-size byte.
ReadSize(v, head_pos, i) ==
    LET packet_len == Len(v) IN
    IF packet_len < i THEN Panic(PanicSub)
    ELSE IF SizeConstMissing(packet_len, i) THEN ParseErr(ErrSizeConst)
    ELSE IF ~InBounds(v, i) THEN Panic(PanicIndex)
    ELSE IF ~HasSizeFlag(At(v, i)) THEN ParseErr(ErrMsb)
    ELSE IF ~InBounds(v, i + 1) THEN Panic(PanicIndex)
    ELSE LET data_size == DecodeSize(At(v, i), At(v, i + 1)) IN
         IF IsNone(data_size) THEN ParseErr(ErrNone)
         ELSE ReadBody(v, head_pos, data_size, i + 2)

parser(v, off) ==
    LET packet_len == Len(v) IN
    IF OffsetPastEnd(packet_len, off) THEN ParseErr(ErrOffset)
    ELSE IF TooShort(packet_len) THEN ParseErr(ErrShort)
    ELSE IF packet_len < 1 THEN Panic(PanicSub)
    ELSE LET hs == HeaderLoop(v, off, (packet_len - 1) - off) IN
         IF hs.panic THEN Panic(PanicIndex)
         ELSE IF hs.header_flag = FALSE THEN ParseErr(ErrNoHeader)
         ELSE ReadSize(v, hs.head_pos, hs.i)

----------------------------------------------------------------------------
(* Inputs *)

SeqsUpTo(S, n) == UNION {[1..k -> S] : k \in 0..n}

\* n bytes starting at seed, each 0xB5 more than the last (mod 256), so that
\* 0xA5 is followed by 0x5A inside a payload
Pattern(n, seed) == [k \in 1..n |-> (seed + (k - 1) * 181) % 256]

ShortBytes == {0, HEADER_0, HEADER_1}

NoiseBytes == {0, HEADER_0, HEADER_1}

DamageBytes == {0, HEADER_1}

Payloads ==
    {Pattern(n, HEADER_0) : n \in 0..MaxDataLen}
        \cup SeqsUpTo(ShortBytes, MaxShortLen)

NoEnc == EncErr("")

NoRes == ParseErr("")

Init ==
    /\ input \in Payloads
    /\ data = input
    /\ enc = NoEnc
    /\ pre = <<>>
    /\ post = <<>>
    /\ packet = <<>>
    /\ offset = 0
    /\ kind = "none"
    /\ phase = "input"
    /\ res = NoRes

\* The caller encodes its payload; packet.append(data) drains data on success.
MakePacket ==
    /\ phase = "input"
    /\ enc' = make_packet(data)
    /\ data' = IF enc'.ok THEN <<>> ELSE data
    /\ phase' = "encoded"
    /\ UNCHANGED <<input, pre, post, packet, offset, kind, res>>

\* The frame arrives in a receive buffer among unrelated bytes.
Transmit ==
    /\ phase = "encoded"
    /\ enc.ok
    /\ \E a \in SeqsUpTo(NoiseBytes, MaxNoise), b \in SeqsUpTo(NoiseBytes, MaxPostNoise) :
          /\ pre' = a
          /\ post' = b
          /\ packet' = a \o enc.val \o b
    /\ offset' = 0
    /\ kind' = "framed"
    /\ phase' = "buffered"
    /\ UNCHANGED <<input, data, enc, res>>

\* The frame arrives without its last byte.
Truncate ==
    /\ phase = "encoded"
    /\ enc.ok
    /\ packet' = SubSeq(enc.val, 1, Len(enc.val) - 1)
    /\ offset' = 0
    /\ kind' = "truncated"
    /\ phase' = "buffered"
    /\ UNCHANGED <<input, data, enc, pre, post, res>>

\* Another sender frames the payload with a size field of its own choosing.
Forge ==
    /\ phase = "input"
    /\ \E hi \in {SIZE_FLAG, 0, SIZE_FLAG + 1}, lo \in {AsU8(Len(input)), 0} :
          packet' = <<HEADER_0, HEADER_1, hi, lo, CONST_PART>> \o input
                      \o <<IF Len(input) = 0 THEN 0 ELSE calc_checksum(input), FOOTER>>
    /\ offset' = 0
    /\ kind' = "forged"
    /\ phase' = "buffered"
    /\ UNCHANGED <<input, data, enc, pre, post, res>>

\* The buffer holds a few bytes that carry no frame.
RawBuffer ==
    /\ phase = "input"
    /\ input = <<>>
    /\ packet' \in SeqsUpTo(NoiseBytes, MaxRawLen)
    /\ offset' = 0
    /\ kind' = "raw"
    /\ phase' = "buffered"
    /\ UNCHANGED <<input, data, enc, pre, post, res>>

\* One byte of a short buffer is damaged on the line.
Damage ==
    /\ phase = "buffered"
    /\ kind \in {"framed", "truncated"}
    /\ Len(packet) <= MaxSmallBuf
    /\ \E k \in 1..Len(packet), b \in DamageBytes :
          /\ packet[k] # b
          /\ packet' = [packet EXCEPT ![k] = b]
    /\ kind' = "damaged"
    /\ UNCHANGED <<input, data, enc, pre, post, offset, phase, res>>

\* The caller scans from an offset other than 0.
Seek ==
    /\ phase = "buffered"
    /\ offset = 0
    /\ Len(packet) <= MaxSmallBuf
    /\ offset' \in 1..MaxOffset
    /\ UNCHANGED <<input, data, enc, pre, post, packet, kind, phase, res>>

Parse ==
    /\ phase = "buffered"
    /\ res' = parser(packet, offset)
    /\ phase' = "parsed"
    /\ UNCHANGED <<input, data, enc, pre, post, packet, offset, kind>>

Next ==
    \/ MakePacket
    \/ Transmit
    \/ Truncate
    \/ Forge
    \/ RawBuffer
    \/ Damage
    \/ Seek
    \/ Parse

Spec == Init /\ [][Next]_vars

----------------------------------------------------------------------------
(* Vocabulary of the properties, stated without the operators of the model *)

Bit(x, k) == (x \div (2 ^ k)) % 2

\* bit k of the XOR of all bytes of P: the parity of the bytes that have it set
XorBit(P, k) == Cardinality({j \in 1..Len(P) : Bit(P[j], k) = 1}) % 2

XorOfAll(P) ==
    XorBit(P, 0) + 2 * XorBit(P, 1) + 4 * XorBit(P, 2) + 8 * XorBit(P, 3)
        + 16 * XorBit(P, 4) + 32 * XorBit(P, 5) + 64 * XorBit(P, 6)
        + 128 * XorBit(P, 7)

\* 0xA5 0x5A stands at the 0-based position k of v
HeaderAt(v, k) == k >= 0 /\ k + 2 <= Len(v) /\ v[k + 1] = 165 /\ v[k + 2] = 90

HasHeader(v, off) == \E k \in off..(Len(v) - 2) : HeaderAt(v, k)

FirstHeader(v, off) ==
    CHOOSE k \in off..(Len(v) - 2) :
        HeaderAt(v, k) /\ \A m \in off..(k - 1) : ~HeaderAt(v, m)

\* the number of bytes of v after the two header bytes at k
AfterHeader(v, k) == Len(v) - (k + 2)

Parsed == phase = "parsed"

\* the buffer is the frame of `input` and nothing else, scanned from 0
CleanFrame ==
    /\ Parsed /\ kind = "framed" /\ offset = 0
    /\ pre = <<>> /\ post = <<>>

\* the buffer is pre ++ frame ++ post, scanned from 0
NoisyFrame == Parsed /\ kind = "framed" /\ offset = 0

\* the buffer is the frame without its footer, scanned from 0
CutFrame == Parsed /\ kind = "truncated" /\ offset = 0

----------------------------------------------------------------------------
\* C1: round trip. Every payload of 1..127 bytes is encoded by make_packet,
\* and parser at offset 0 on the frame alone succeeds and returns that payload.
C1_RoundTrip ==
    /\ (phase = "encoded" /\ Len(input) \in 1..127) => enc.ok
    /\ CleanFrame => (res.st = "Ok" /\ res.main_data = input)

C1_Witness ==
    /\ CleanFrame /\ Len(input) = 127
    /\ packet = enc.val
    /\ res.st = "Ok" /\ res.main_data = input

\* C2: wire layout. For 1..127 payload bytes the frame is A5 5A, 0x80 | (len >> 8),
\* len & 0xFF, A0, the payload, the XOR of the payload bytes, 04; it is len + 7
\* bytes long and the high size byte has its top bit set.
C2_WireLayout ==
    (phase = "encoded" /\ Len(input) \in 1..127) =>
        /\ enc.ok
        /\ enc.val = <<165, 90, 128 + (Len(input) \div 256), Len(input) % 256, 160>>
                        \o input \o <<XorOfAll(input), 4>>
        /\ Len(enc.val) = Len(input) + 7
        /\ Bit(enc.val[3], 7) = 1

C2_Witness ==
    /\ phase = "encoded" /\ Len(input) = 127 /\ enc.ok
    /\ enc.val[4] = 127 /\ Len(enc.val) = 134

C4_AnyNoise ==
    NoisyFrame =>
        (res.st = "Ok" /\ res.main_data = input /\ res.head_pos = Len(pre))

\* C4 amended: the same, for every pre in which no 0xA5 is followed by 0x5A
\* (post arbitrary).
C4_NoiseTolerance ==
    (NoisyFrame /\ ~HasHeader(pre, 0)) =>
        (res.st = "Ok" /\ res.main_data = input /\ res.head_pos = Len(pre))

C4_Witness ==
    /\ NoisyFrame /\ pre = <<90, 165>> /\ Len(post) = 1
    /\ res.st = "Ok" /\ res.main_data = input /\ res.head_pos = 2

\* C5 as stated: with offset < len(buffer), parser fails with the too-short error
\* whenever len(buffer) - offset <= 7.
C5_RemainingPrecheck ==
    (Parsed /\ offset < Len(packet) /\ Len(packet) - offset <= 7) =>
        (res.st = "Err" /\ res.err = ErrShort)

\* C5 amended: with offset < len(buffer), parser fails with the too-short error
\* exactly when len(buffer) <= 7, whatever the offset; a longer buffer of which
\* at most 7 bytes remain after the offset fails too, with a later error.
C5_WholeLengthPrecheck ==
    (Parsed /\ offset < Len(packet)) =>
        /\ (res.st = "Err" /\ res.err = ErrShort) <=> Len(packet) <= 7
        /\ Len(packet) - offset <= 7 => res.st = "Err"

C5_Witness ==
    /\ Parsed /\ kind = "truncated" /\ Len(packet) = 7 /\ offset = 3
    /\ HasHeader(packet, 0)
    /\ res.st = "Err" /\ res.err = ErrShort

\* C6 as stated: whenever the first A5 5A at or after offset is followed by a byte
\* with top bit 0, parser fails with the MSB syntax error, however many bytes
\* follow.
C6_FlagAlways ==
    (/\ Parsed
     /\ HasHeader(packet, offset)
     /\ AfterHeader(packet, FirstHeader(packet, offset)) >= 1
     /\ Bit(packet[FirstHeader(packet, offset) + 3], 7) = 0)
        => (res.st = "Err" /\ res.err = ErrMsb)

\* C6 amended: the same when the buffer is longer than 7 bytes, offset <
\* len(buffer) and at least 3 bytes follow the header.
C6_FlagViolation ==
    (/\ Parsed
     /\ offset < Len(packet) /\ Len(packet) > 7
     /\ HasHeader(packet, offset)
     /\ AfterHeader(packet, FirstHeader(packet, offset)) >= 3
     /\ Bit(packet[FirstHeader(packet, offset) + 3], 7) = 0)
        => (res.st = "Err" /\ res.err = ErrMsb)

C6_Witness ==
    /\ Parsed /\ Len(packet) > 7 /\ offset = 1
    /\ HasHeader(packet, offset)
    /\ FirstHeader(packet, offset) = 1
    /\ packet[4] = 90
    /\ res.st = "Err" /\ res.err = ErrMsb

\* C7 as stated: parser at offset 0 on a frame without its footer fails with the
\* footer, the body-fit or the size/constant-fit error.
C7_TruncationErrors ==
    CutFrame =>
        (res.st = "Err" /\ res.err \in {ErrFooter, ErrFit, ErrSizeConst})

\* C7 amended: it fails; with the too-short error for a 1-byte payload (7 bytes
\* are left) and with the body-fit error for every longer payload.
C7_Truncation ==
    CutFrame =>
        /\ res.st = "Err"
        /\ Len(input) = 1 => res.err = ErrShort
        /\ Len(input) >= 2 => res.err = ErrFit

C7_Witness ==
    /\ CutFrame /\ Len(input) = 127 /\ Len(packet) = 133
    /\ res.st = "Err" /\ res.err = ErrFit

\* C8: parser never reads an index >= len(buffer), never subtracts below zero and
\* never calls calc_checksum on an empty Vec: it returns Ok or a classified Err.
C8_NoOverrun ==
    Parsed =>
        /\ res.st \in {"Ok", "Err"}
        /\ res.st = "Err" =>
              res.err \in {ErrOffset, ErrShort, ErrNoHeader, ErrSizeConst, ErrMsb,
                           ErrNone, ErrConst, ErrFit, ErrChecksum, ErrFooter}

C8_Witness ==
    /\ Parsed /\ Len(pre) > 0 /\ post = <<>>
    /\ res.st = "Ok" /\ res.tail_pos = Len(packet) - 1

\* C9: a successful scan returns the first A5 5A at or after offset as head,
\* tail = head + len(payload) + 6 < len(buffer), and buffer[head..=tail] is
\* header, flagged size equal to len(payload), A0, payload, XOR checksum, 04.
C9_ScanSound ==
    (Parsed /\ res.st = "Ok") =>
        LET h == res.head_pos
            t == res.tail_pos
            n == Len(res.main_data)
        IN  /\ offset <= h
            /\ HasHeader(packet, offset)
            /\ h = FirstHeader(packet, offset)
            /\ t = h + n + 6
            /\ t < Len(packet)
            /\ packet[h + 1] = 165
            /\ packet[h + 2] = 90
            /\ Bit(packet[h + 3], 7) = 1
            /\ (packet[h + 3] - 128) * 256 + packet[h + 4] = n
            /\ packet[h + 5] = 160
            /\ \A j \in 1..n : packet[h + 5 + j] = res.main_data[j]
            /\ packet[t] = XorOfAll(res.main_data)
            /\ packet[t + 1] = 4

C9_Witness ==
    /\ Parsed /\ res.st = "Ok" /\ offset = 1
    /\ res.head_pos = 1 /\ res.tail_pos = 8

====
